---------------------------- MODULE Spec2Model ----------------------------
(***************************************************************************)
(* Accounting Calculation Engine of streamlit_app.py:                      *)
(*   solve_equation            (Assets = Liabilities + Capital solver)     *)
(*   calculate_and_display_gst (GST amount computation and CGST/SGST/IGST) *)
(*                                                                         *)
(* Numbers.  The program computes on Python floats.  The model computes on *)
(* exact rationals <<n, d>> (d > 0, lowest terms): every +, -, *, / of the *)
(* source is the corresponding rational operation, a division by zero is a *)
(* fault (ZeroDivisionError).  Binary rounding of the floats (a relative   *)
(* error of 2^-53 per operation) is not represented.                       *)
(*                                                                         *)
(* Python values.  None is <<>>, a present value v is <<v>>.  Strings that *)
(* the code trims and lower-cases are sequences of one-character strings.  *)
(*                                                                         *)
(* Streamlit reruns the script on every interaction and renders only what  *)
(* the pressed button's handler writes, so each action replaces the whole  *)
(* rendered result.                                                        *)
(***************************************************************************)
EXTENDS Integers, Sequences, FiniteSets, TLC

\* ------------------------------------------------------------------ bounds
\* largest equation term, in steps of 1/200 rupee
MaxAmount == 3
\* largest drawings / additional capital / |profit or loss|, same steps
MaxAdj == 2
\* largest GST amount, in paise
MaxGstAmount == 3
\* longest From/To state string enumerated exhaustively
MaxStrLen == 2
\* largest number of quarters in an amount handed to format_currency
MaxMantissa == 5
\* longest list of custom entries
MaxEntries == 3
\* largest rate, in percent, handed to validate_gst_rate
MaxRate == 30

\* --------------------------------------------------------------- rationals
RECURSIVE GCD(_, _)
GCD(a, b) == IF b = 0 THEN a ELSE GCD(b, a % b)

IAbs(i) == IF i < 0 THEN -i ELSE i

\* n/d in lowest terms with a positive denominator (d # 0)
Rat(n, d) ==
    LET g == GCD(IAbs(n), IAbs(d))
        s == IF d < 0 THEN -1 ELSE 1
    IN  <<(s * n) \div g, (s * d) \div g>>

Int2R(i) == <<i, 1>>
Zero == <<0, 1>>

RAdd(x, y) == Rat(x[1] * y[2] + y[1] * x[2], x[2] * y[2])
RSub(x, y) == Rat(x[1] * y[2] - y[1] * x[2], x[2] * y[2])
RMul(x, y) == Rat(x[1] * y[1], x[2] * y[2])
\* only used where y # Zero; the callers raise the fault otherwise
RDiv(x, y) == Rat(x[1] * y[2], x[2] * y[1])
RLt(x, y) == x[1] * y[2] < y[1] * x[2]
RLe(x, y) == x[1] * y[2] <= y[1] * x[2]
RAbs(x) == <<IAbs(x[1]), x[2]>>

\* ------------------------------------------------------------ Python values
None == <<>>
Some(v) == <<v>>
Val(o) == o[1]

\* bool(x) of an optional number: None and 0 are falsy
Truthy(o) == o # None /\ Val(o) # Zero

\* Python's  a or b
PyOr(a, b) == IF Truthy(a) THEN a ELSE b

\* the literal 0.01 the code compares differences against
Tolerance == <<1, 100>>

\* ---------------------------------------------------------- solve_equation
\* x is not None and x != 0
SuppliedMut(x) == x # None
Supplied(x) == x # None /\ Val(x) # Zero

\* sum([x is not None and x != 0 for x in [assets, liabilities, capital]])
KnownValues(assets, liabilities, capital) ==
    LET xs == <<assets, liabilities, capital>>
    IN  Cardinality({i \in 1..3 : Supplied(xs[i])})

\* if known_values < 2: st.error(...); return
InsufficientMut(known_values) == known_values < 1
Insufficient(known_values) == known_values < 2

\* adjusted_capital = capital + additional_capital - drawings + profit_loss
AdjustCapitalMut(capital, additional_capital, drawings, profit_loss) ==
    RAdd(RAdd(RAdd(capital, additional_capital), drawings), profit_loss)
AdjustCapital(capital, additional_capital, drawings, profit_loss) ==
    RAdd(RSub(RAdd(capital, additional_capital), drawings), profit_loss)

\* calculated_assets = liabilities + adjusted_capital
CalculatedAssets(liabilities, adjusted_capital) ==
    RAdd(liabilities, adjusted_capital)

\* calculated_liabilities = assets - adjusted_capital
CalculatedLiabilities(assets, adjusted_capital) ==
    RSub(assets, adjusted_capital)

\* calculated_capital = assets - liabilities
CalculatedCapital(assets, liabilities) == RSub(assets, liabilities)

\* original_capital = calculated_capital - additional_capital + drawings - profit_loss
OriginalCapitalMut(calculated_capital, additional_capital, drawings, profit_loss) ==
    RSub(RSub(RSub(calculated_capital, additional_capital), drawings), profit_loss)
OriginalCapital(calculated_capital, additional_capital, drawings, profit_loss) ==
    RSub(RAdd(RSub(calculated_capital, additional_capital), drawings), profit_loss)

\* the dict  solution = {}  ; a key that was never set reads as None (.get)
EmptySolution ==
    [Assets |-> None, Liabilities |-> None,
     OriginalCapital |-> None, AdjustedCapital |-> None]

\* the if / elif / elif chain that fills  solution
Solve(assets, liabilities, capital, adjusted_capital, additional_capital, drawings, profit_loss) ==
    IF assets = None
    THEN IF liabilities # None /\ adjusted_capital # None
         THEN [EmptySolution EXCEPT
                 !.Assets = Some(CalculatedAssets(Val(liabilities),
                                                  Val(adjusted_capital)))]
         ELSE EmptySolution
    ELSE IF liabilities = None
    THEN IF assets # None /\ adjusted_capital # None
         THEN [EmptySolution EXCEPT
                 !.Liabilities = Some(CalculatedLiabilities(Val(assets),
                                                            Val(adjusted_capital)))]
         ELSE EmptySolution
    ELSE IF capital = None
    THEN IF assets # None /\ liabilities # None
         THEN LET cc == CalculatedCapital(Val(assets), Val(liabilities))
              IN  [EmptySolution EXCEPT
                     !.OriginalCapital =
                         Some(OriginalCapital(cc, additional_capital,
                                              drawings, profit_loss)),
                     !.AdjustedCapital = Some(cc)]
         ELSE EmptySolution
    ELSE EmptySolution

\* if final_assets and final_liabilities and final_capital:  (Step 3 is run)
ReachesVerification(final_assets, final_liabilities, final_capital) ==
    Truthy(final_assets) /\ Truthy(final_liabilities) /\ Truthy(final_capital)

\* abs(final_assets - (final_liabilities + final_capital)) < 0.01
Balances(final_assets, final_liabilities, final_capital) ==
    RLt(RAbs(RSub(final_assets, RAdd(final_liabilities, final_capital))),
        Tolerance)

\* Step 3: "verified", "imbalance", or "none" when the step is skipped
Verdict(final_assets, final_liabilities, final_capital) ==
    IF ReachesVerification(final_assets, final_liabilities, final_capital)
    THEN IF Balances(Val(final_assets), Val(final_liabilities),
                     Val(final_capital))
         THEN "verified"
         ELSE "imbalance"
    ELSE "none"

\* create_equation_summary_table: the rows of the table, amounts unformatted
SummaryTable(assets, liabilities, capital, solution, adjusted_capital) ==
    LET row(c, a, s) == <<[Component |-> c, Amount |-> a, Status |-> s]>>
        r1 == IF Truthy(assets) \/ solution.Assets # None
              THEN row("Assets", PyOr(assets, solution.Assets),
                       IF Truthy(assets) THEN "Given" ELSE "Calculated")
              ELSE <<>>
        r2 == IF Truthy(liabilities) \/ solution.Liabilities # None
              THEN row("Liabilities", PyOr(liabilities, solution.Liabilities),
                       IF Truthy(liabilities) THEN "Given" ELSE "Calculated")
              ELSE <<>>
        r3 == IF Truthy(capital) \/ solution.OriginalCapital # None
              THEN row("Capital (Original)",
                       PyOr(capital, solution.OriginalCapital),
                       IF Truthy(capital) THEN "Given" ELSE "Calculated")
              ELSE <<>>
        r4 == IF Truthy(adjusted_capital) \/ solution.AdjustedCapital # None
              THEN row("Capital (Adjusted)",
                       PyOr(adjusted_capital, solution.AdjustedCapital),
                       "Calculated")
              ELSE <<>>
    IN  r1 \o r2 \o r3 \o r4

\* what a call leaves on the page; status "insufficient" is the early return
EqIdle ==
    [status |-> "idle",
     assets |-> None, liabilities |-> None, capital |-> None,
     drawings |-> Zero, additional_capital |-> Zero, profit_loss |-> Zero,
     adjusted_capital |-> None, solution |-> EmptySolution,
     verdict |-> "none", summary |-> <<>>]

solve_equation(assets, liabilities, capital, drawings, additional_capital, profit_loss) ==
    LET inp == [EqIdle EXCEPT !.assets = assets, !.liabilities = liabilities,
                             !.capital = capital, !.drawings = drawings,
                             !.additional_capital = additional_capital,
                             !.profit_loss = profit_loss]
        known_values == KnownValues(assets, liabilities, capital)
    IN  IF Insufficient(known_values)
        THEN [inp EXCEPT !.status = "insufficient"]
        ELSE
          LET adjusted_capital ==
                  IF capital # None
                  THEN Some(AdjustCapital(Val(capital), additional_capital,
                                          drawings, profit_loss))
                  ELSE None
              solution == Solve(assets, liabilities, capital, adjusted_capital,
                                additional_capital, drawings, profit_loss)
              final_assets == PyOr(assets, solution.Assets)
              final_liabilities == PyOr(liabilities, solution.Liabilities)
              final_capital == PyOr(adjusted_capital, solution.AdjustedCapital)
          IN  [inp EXCEPT
                 !.status = "done",
                 !.adjusted_capital = adjusted_capital,
                 !.solution = solution,
                 !.verdict = Verdict(final_assets, final_liabilities,
                                     final_capital),
                 !.summary = SummaryTable(assets, liabilities, capital,
                                          solution, adjusted_capital)]

\* ------------------------------------------------- calculate_and_display_gst
\* the characters the state strings are built from
Alphabet == {"m", "M", "g", " "}

\* str.lower(), character by character
LowerChar(c) == IF c = "M" THEN "m" ELSE c
Lower(s) == [i \in 1..Len(s) |-> LowerChar(s[i])]

\* str.strip(): leading and trailing whitespace removed
RECURSIVE LStrip(_)
LStrip(s) == IF s # <<>> /\ Head(s) = " " THEN LStrip(Tail(s)) ELSE s
RECURSIVE RStrip(_)
RStrip(s) ==
    IF s # <<>> /\ s[Len(s)] = " " THEN RStrip(SubSeq(s, 1, Len(s) - 1)) ELSE s
Strip(s) == RStrip(LStrip(s))

\* from_state.strip().lower()
NormState(s) == Lower(Strip(s))

Interstate == "Interstate (Between States)"
Intrastate == "Intrastate (Within State)"
Inclusive == "Inclusive of GST"
Exclusive == "Exclusive of GST"

\* is_interstate: the states decide when both are non-empty and differ,
\* the transaction-type selector otherwise
IsInterstateMut(transaction_type, from_state, to_state) ==
    IF from_state # <<>> /\ to_state # <<>> /\ from_state # to_state
    THEN TRUE
    ELSE transaction_type = Interstate
IsInterstate(transaction_type, from_state, to_state) ==
    IF from_state # <<>> /\ to_state # <<>>
       /\ NormState(from_state) # NormState(to_state)
    THEN TRUE
    ELSE IF transaction_type = Interstate THEN TRUE ELSE FALSE

\* 1 + gst_rate/100
RateFactor(gst_rate) == RAdd(Int2R(1), RDiv(Int2R(gst_rate), Int2R(100)))

\* basic_amount = amount / (1 + gst_rate/100)
InclusiveBasicMut(amount, gst_rate) ==
    RMul(amount, RSub(Int2R(1), RDiv(Int2R(gst_rate), Int2R(100))))
InclusiveBasic(amount, gst_rate) == RDiv(amount, RateFactor(gst_rate))

\* gst_amount = amount * (gst_rate/100)
ExclusiveGstMut(amount, gst_rate) == RMul(amount, Int2R(gst_rate))
ExclusiveGst(amount, gst_rate) ==
    RMul(amount, RDiv(Int2R(gst_rate), Int2R(100)))

\* the amounts <<basic_amount, gst_amount>> of the if / else on amount_type
BasicAndGst(amount, gst_rate, amount_type) ==
    IF amount_type = Inclusive
    THEN LET basic_amount == InclusiveBasic(amount, gst_rate)
         IN  <<basic_amount, RSub(amount, basic_amount)>>
    ELSE <<amount, ExclusiveGst(amount, gst_rate)>>

\* total_amount = basic_amount + gst_amount
TotalAmount(basic_amount, gst_amount) == RAdd(basic_amount, gst_amount)

\* the split [cgst, sgst, igst] of gst_amount
GstSplitMut(is_interstate, gst_amount) ==
    IF is_interstate
    THEN [igst |-> gst_amount, cgst |-> Zero, sgst |-> Zero]
    ELSE [cgst |-> gst_amount, sgst |-> gst_amount, igst |-> Zero]
GstSplitBothMut(is_interstate, gst_amount) ==
    [cgst |-> RDiv(gst_amount, Int2R(2)),
     sgst |-> RDiv(gst_amount, Int2R(2)),
     igst |-> IF is_interstate THEN gst_amount ELSE Zero]
GstSplit(is_interstate, gst_amount) ==
    IF is_interstate
    THEN [igst |-> gst_amount, cgst |-> Zero, sgst |-> Zero]
    ELSE [cgst |-> RDiv(gst_amount, Int2R(2)),
          sgst |-> RDiv(gst_amount, Int2R(2)),
          igst |-> Zero]

Line(side, account, amount) ==
    [side |-> side, account |-> account, amount |-> amount]

\* the "Journal Entries" block: the sales lines, then the purchase lines
StandardPostings(is_interstate, basic_amount, total_amount, split) ==
    IF is_interstate
    THEN << Line("Dr", "Debtors/Cash", total_amount),
            Line("Cr", "Sales", basic_amount),
            Line("Cr", "IGST Payable", split.igst),
            Line("Dr", "Purchase", basic_amount),
            Line("Dr", "IGST Input", split.igst),
            Line("Cr", "Creditors/Cash", total_amount) >>
    ELSE << Line("Dr", "Debtors/Cash", total_amount),
            Line("Cr", "Sales", basic_amount),
            Line("Cr", "CGST Payable", split.cgst),
            Line("Cr", "SGST Payable", split.sgst),
            Line("Dr", "Purchase", basic_amount),
            Line("Dr", "CGST Input", split.cgst),
            Line("Dr", "SGST Input", split.sgst),
            Line("Cr", "Creditors/Cash", total_amount) >>

\* if not reverse_charge: the postings are shown, else only the info note
JournalShownMut(reverse_charge) == TRUE
JournalShown(reverse_charge) == ~reverse_charge

\* what a call leaves on the page; status "fault" is an uncaught exception
GstIdle ==
    [status |-> "idle", amount |-> Zero, gst_rate |-> 0,
     amount_type |-> Exclusive, transaction_type |-> Intrastate,
     from_state |-> <<>>, to_state |-> <<>>, reverse_charge |-> FALSE,
     is_interstate |-> FALSE,
     basic_amount |-> None, gst_amount |-> None, total_amount |-> None,
     cgst |-> None, sgst |-> None, igst |-> None,
     journal_entries |-> <<>>, reverse_charge_note |-> FALSE]

calculate_and_display_gst(amount, gst_rate, amount_type, transaction_type, from_state, to_state, reverse_charge) ==
    LET inp == [GstIdle EXCEPT
                  !.amount = amount, !.gst_rate = gst_rate,
                  !.amount_type = amount_type,
                  !.transaction_type = transaction_type,
                  !.from_state = from_state, !.to_state = to_state,
                  !.reverse_charge = reverse_charge]
        is_interstate == IsInterstate(transaction_type, from_state, to_state)
    IN  IF amount_type = Inclusive /\ RateFactor(gst_rate) = Zero
        THEN [inp EXCEPT !.status = "fault", !.is_interstate = is_interstate]
        ELSE
          LET bg == BasicAndGst(amount, gst_rate, amount_type)
              basic_amount == bg[1]
              gst_amount == bg[2]
              total_amount == TotalAmount(basic_amount, gst_amount)
              split == GstSplit(is_interstate, gst_amount)
          IN  [inp EXCEPT
                 !.status = "done",
                 !.is_interstate = is_interstate,
                 !.basic_amount = Some(basic_amount),
                 !.gst_amount = Some(gst_amount),
                 !.total_amount = Some(total_amount),
                 !.cgst = Some(split.cgst),
                 !.sgst = Some(split.sgst),
                 !.igst = Some(split.igst),
                 !.journal_entries =
                     IF JournalShown(reverse_charge)
                     THEN StandardPostings(is_interstate, basic_amount,
                                           total_amount, split)
                     ELSE <<>>,
                 !.reverse_charge_note = ~JournalShown(reverse_charge)]

\* -------------------------------------------------------------- validators
\* the result of a utility call: fn is the function called, arg its number
\* (None when float() cannot convert it), flag its boolean parameter
UtilIdle ==
    [fn |-> "idle", arg |-> None, flag |-> FALSE,
     ok |-> FALSE, err |-> "", out |-> <<>>]

\* valid_rates = [0, 5, 12, 18, 28]
ValidRatesMut == {0, 5, 12, 15, 18, 28}
ValidRates == {0, 5, 12, 18, 28}

\* the largest rate accepted: if rate > 28
MaxGstRate == 28

\* rate not in valid_rates
OffSchedule(rate) == \A v \in ValidRates : rate # Int2R(v)

\* validate_gst_rate: (False, message) or (True, "")
validate_gst_rate(rate) ==
    LET r == [UtilIdle EXCEPT !.fn = "validate_gst_rate", !.arg = rate]
    IN  IF rate = None
        THEN [r EXCEPT !.err = "GST rate must be a valid number"]
        ELSE IF RLt(Val(rate), Zero)
        THEN [r EXCEPT !.err = "GST rate cannot be negative"]
        ELSE IF RLt(Int2R(MaxGstRate), Val(rate))
        THEN [r EXCEPT !.err = "GST rate cannot exceed 28%"]
        ELSE IF OffSchedule(Val(rate))
        THEN [r EXCEPT !.err = "Invalid GST rate"]
        ELSE [r EXCEPT !.ok = TRUE]

\* validate_positive_number: (False, message) or (True, "")
validate_positive_number(value, allow_zero) ==
    LET r == [UtilIdle EXCEPT !.fn = "validate_positive_number",
                              !.arg = value, !.flag = allow_zero]
    IN  IF value = None
        THEN [r EXCEPT !.err = "must be a valid number"]
        ELSE IF RLt(Val(value), Zero)
        THEN [r EXCEPT !.err = "cannot be negative"]
        ELSE IF ~allow_zero /\ Val(value) = Zero
        THEN [r EXCEPT !.err = "must be greater than zero"]
        ELSE [r EXCEPT !.ok = TRUE]

\* --------------------------------------------------------- format_currency
DigitChars == <<"0", "1", "2", "3", "4", "5", "6", "7", "8", "9">>
Digit(k) == DigitChars[k + 1]

\* the decimal digits of n >= 0
RECURSIVE Digits(_)
Digits(n) == IF n < 10 THEN <<Digit(n)>> ELSE Append(Digits(n \div 10), Digit(n % 10))

\* the "," option of the format: a comma before every group of three digits
RECURSIVE Grouped(_)
Grouped(n) ==
    IF n < 1000 THEN Digits(n)
    ELSE Grouped(n \div 1000)
         \o <<",", Digit((n % 1000) \div 100), Digit((n % 100) \div 10), Digit(n % 10)>>

\* x >= 0 rounded to an integer, ties to even
RoundHalfEven(x) ==
    LET q == x[1] \div x[2]
        r == x[1] % x[2]
    IN  IF 2 * r < x[2] THEN q
        ELSE IF 2 * r > x[2] THEN q + 1
        ELSE IF q % 2 = 0 THEN q ELSE q + 1

\* f"{x:,.2f}" for x >= 0
Fixed2(x) ==
    LET c == RoundHalfEven(RMul(x, Int2R(100)))
    IN  Grouped(c \div 100) \o <<".", Digit((c % 100) \div 10), Digit(c % 10)>>

\* s.rstrip(c)
RECURSIVE RStripChar(_, _)
RStripChar(s, c) ==
    IF s # <<>> /\ s[Len(s)] = c THEN RStripChar(SubSeq(s, 1, Len(s) - 1), c)
    ELSE s

\* f"{x:,.2f}".rstrip('0').rstrip('.')
Stripped2(x) == RStripChar(RStripChar(Fixed2(x), "0"), ".")

Crore == 10000000
Lakh == 100000

\* amount >= 10000000 and amount >= 100000, for amount >= 0
IsCroreMut(amount) == amount[1] \div amount[2] >= 10 * Crore
IsCrore(amount) == amount[1] \div amount[2] >= Crore
IsLakh(amount) == amount[1] \div amount[2] >= Lakh

Rupee == "₹"

\* "₹0" if show_symbol else "0"
ZeroRendering(show_symbol) == IF show_symbol THEN <<Rupee, "0">> ELSE <<"0">>

\* the characters format_currency returns; amount is None when float()
\* cannot convert it
FormatCurrency(amount, show_symbol) ==
    IF amount = None THEN ZeroRendering(show_symbol)
    ELSE IF Val(amount) = Zero THEN ZeroRendering(show_symbol)
    ELSE
      LET is_negative == RLt(Val(amount), Zero)
          a == RAbs(Val(amount))
          formatted ==
              IF IsCrore(a)
              THEN Stripped2(RDiv(a, Int2R(Crore))) \o <<" ", "C", "r">>
              ELSE IF IsLakh(a)
              THEN Stripped2(RDiv(a, Int2R(Lakh))) \o <<" ", "L">>
              ELSE Stripped2(a)
          with_symbol == IF show_symbol THEN <<Rupee>> \o formatted
                         ELSE formatted
      IN  IF is_negative THEN <<"-">> \o with_symbol ELSE with_symbol

format_currency(amount, show_symbol) ==
    [UtilIdle EXCEPT !.fn = "format_currency", !.arg = amount,
                     !.flag = show_symbol, !.ok = TRUE,
                     !.out = FormatCurrency(amount, show_symbol)]

\* ---------------------------------------------------------- journal entries
\* A text (an account name, a text field) is a sequence of pieces; the empty
\* text is <<>>, an f-string is the concatenation of its pieces.
Posting(account, dr_amount, cr_amount) ==
    [Account |-> account, Dr_Amount |-> dr_amount, Cr_Amount |-> cr_amount]
Debit(account, amount) == Posting(account, amount, Zero)
Credit(account, amount) == Posting(account, Zero, amount)

\* Python's  text or default
TextOr(text, default) == IF text # <<>> THEN text ELSE default

\* handle_cash_bank_transaction
CashBankEntries(amount, cash_bank, transaction_nature, from_account, to_account) ==
    IF transaction_nature = "Receipt"
    THEN << Debit(cash_bank, amount),
            Credit(<<"To ">> \o from_account, amount) >>
    ELSE << Debit(to_account, amount),
            Credit(<<"To ">> \o cash_bank, amount) >>

\* basic_amount = amount / (1 + gst_rate/100) of the purchase and sales handlers
JournalBasic(amount, gst_rate) == RDiv(amount, RateFactor(gst_rate))
\* gst_amount = amount - basic_amount
JournalGstMut(amount, gst_rate) ==
    RMul(amount, RDiv(Int2R(gst_rate), Int2R(100)))
JournalGst(amount, gst_rate) == RSub(amount, JournalBasic(amount, gst_rate))

\* handle_purchase_transaction
PurchaseEntries(amount, purchase_type, goods_type, supplier, include_gst, gst_rate) ==
    (IF include_gst
     THEN << Debit(goods_type \o <<" Purchase">>, JournalBasic(amount, gst_rate)),
             Debit(<<"Input GST">>, JournalGst(amount, gst_rate)) >>
     ELSE << Debit(goods_type \o <<" Purchase">>, amount) >>)
    \o
    (IF purchase_type = "Credit Purchase"
     THEN << Credit(<<"To ">> \o TextOr(supplier, <<"Creditors">>), amount) >>
     ELSE << Credit(<<"To Cash/Bank">>, amount) >>)

\* handle_sales_transaction
SalesEntries(amount, sales_type, goods_type, customer, include_gst, gst_rate) ==
    (IF sales_type = "Credit Sales"
     THEN << Debit(TextOr(customer, <<"Debtors">>), amount) >>
     ELSE << Debit(<<"Cash/Bank">>, amount) >>)
    \o
    (IF include_gst
     THEN << Credit(<<"To ">> \o goods_type \o <<" Sales">>,
                    JournalBasic(amount, gst_rate)),
             Credit(<<"To Output GST">>, JournalGst(amount, gst_rate)) >>
     ELSE << Credit(<<"To ">> \o goods_type \o <<" Sales">>, amount) >>)

\* handle_expense_transaction
ExpenseEntries(amount, expense_type, payment_method, creditor_name) ==
    << Debit(expense_type \o <<" Expense">>, amount),
       IF payment_method = <<"Credit">>
       THEN Credit(<<"To ">> \o TextOr(creditor_name, <<"Creditors">>), amount)
       ELSE Credit(<<"To ">> \o payment_method, amount) >>

\* handle_income_transaction
IncomeEntriesMut(amount, income_type, receipt_method) ==
    << Credit(<<"To ">> \o income_type, amount),
       Debit(receipt_method, amount) >>
IncomeEntries(amount, income_type, receipt_method) ==
    << Debit(receipt_method, amount),
       Credit(<<"To ">> \o income_type, amount) >>

\* handle_capital_transaction
CapitalEntries(amount, capital_type, asset_type) ==
    IF capital_type \in {"Capital Introduced", "Additional Capital"}
    THEN << Debit(asset_type, amount), Credit(<<"To Capital">>, amount) >>
    ELSE << Debit(<<"Drawings">>, amount),
            Credit(<<"To ">> \o asset_type, amount) >>

\* the entry appended by "Add Entry"
CustomPostingMut(account_name, entry_type, entry_amount) ==
    Posting(account_name, entry_amount,
            IF entry_type = "Credit" THEN entry_amount ELSE Zero)
CustomPosting(account_name, entry_type, entry_amount) ==
    Posting(account_name,
            IF entry_type = "Debit" THEN entry_amount ELSE Zero,
            IF entry_type = "Credit" THEN entry_amount ELSE Zero)

\* if account_name and entry_amount > 0
AddAccepted(account_name, entry_amount) ==
    account_name # <<>> /\ RLt(Zero, entry_amount)

\* sum(entry['Dr_Amount'] ...), sum(entry['Cr_Amount'] ...)
RECURSIVE TotalDr(_)
TotalDr(entries) ==
    IF entries = <<>> THEN Zero
    ELSE RAdd(TotalDr(SubSeq(entries, 1, Len(entries) - 1)),
              entries[Len(entries)].Dr_Amount)
RECURSIVE TotalCr(_)
TotalCr(entries) ==
    IF entries = <<>> THEN Zero
    ELSE RAdd(TotalCr(SubSeq(entries, 1, Len(entries) - 1)),
              entries[Len(entries)].Cr_Amount)

\* abs(total_dr - total_cr) < 0.01, in display_journal_entry
IsBalanced(total_dr, total_cr) ==
    RLt(RAbs(RSub(total_dr, total_cr)), Tolerance)

\* abs(total_dr - total_cr) < 0.01, on "Generate Custom Entry"
GateOpen(total_dr, total_cr) ==
    RLt(RAbs(RSub(total_dr, total_cr)), Tolerance)

\* the list "Generate Custom Entry" leaves in the session
ListAfterGenerateMut(entries) == <<>>
ListAfterGenerate(entries) ==
    IF GateOpen(TotalDr(entries), TotalCr(entries)) THEN <<>> ELSE entries

\* custom_entries.pop(i), for a 1-based i
PopMut(entries, i) == SubSeq(entries, 1, Len(entries) - 1)
Pop(entries, i) ==
    SubSeq(entries, 1, i - 1) \o SubSeq(entries, i + 1, Len(entries))

\* a cell of the table: the formatted amount when it is > 0, else ''
AmountCell(amount) ==
    IF RLt(Zero, amount) THEN FormatCurrency(Some(amount), TRUE) ELSE <<>>

JournalIdle ==
    [status |-> "idle", handler |-> "", amount |-> Zero,
     include_gst |-> FALSE, gst_rate |-> 0,
     entries |-> <<>>, rows |-> <<>>,
     total_dr |-> Zero, total_cr |-> Zero, balanced |-> FALSE]

\* display_journal_entry: the table rows, the totals and the verdict
display_journal_entry(entries) ==
    LET total_dr == TotalDr(entries)
        total_cr == TotalCr(entries)
    IN  [JournalIdle EXCEPT
           !.status = "shown",
           !.entries = entries,
           !.rows = [i \in 1..Len(entries) |->
                       [Particulars |-> entries[i].Account,
                        Dr |-> AmountCell(entries[i].Dr_Amount),
                        Cr |-> AmountCell(entries[i].Cr_Amount)]],
           !.total_dr = total_dr,
           !.total_cr = total_cr,
           !.balanced = IsBalanced(total_dr, total_cr)]

\* the entry a predefined handler shows, with the inputs it was built from
Shown(handler, amount, include_gst, gst_rate, entries) ==
    [display_journal_entry(entries) EXCEPT
       !.handler = handler, !.amount = amount,
       !.include_gst = include_gst, !.gst_rate = gst_rate]

\* ------------------------------------------------------------------ inputs
\* st.number_input(..., min_value=0.0, value=None): absent or >= 0
Step == <<1, 200>>
EqTerms == {None} \cup {Some(RMul(Int2R(k), Step)) : k \in 0..MaxAmount}
\* drawings, additional capital: >= 0; profit_loss: any sign
EqAdjustments == {RMul(Int2R(k), Step) : k \in 0..MaxAdj}
EqProfitLoss == {RMul(Int2R(k), Step) : k \in (0 - MaxAdj)..MaxAdj}

\* default of the GST amount field
DefaultAmount == 1000
GstAmounts == {Rat(k, 100) : k \in 0..MaxGstAmount} \cup {Int2R(DefaultAmount)}
\* the rates of the GST schedule, and rates off it
GstRates == {0, 5, 12, 18, 28}
RateInputs == GstRates \cup {0 - 100, 0 - 5, 15, 30}
AmountTypes == {Exclusive, Inclusive}
TransactionTypes == {Intrastate, Interstate}
SampleStates == { <<>>, <<"M", "m">>, <<"m", "m", " ">>, <<"g">> }

\* rates handed to the validator: every half percent from -1 to MaxRate, and
\* a value that is no number
RateArgs == {None} \cup {Some(Rat(k, 2)) : k \in (0 - 2)..(2 * MaxRate)}
\* values handed to validate_positive_number
NumberArgs == {None} \cup {Some(Rat(k, 2)) : k \in (0 - 2)..2}

\* amounts handed to format_currency: quarters times a power of ten, of
\* either sign, amounts that need rounding, and a value that is no number
PowersOfTen == {1, 10, 100, 1000, 10000, 100000, 1000000, 10000000, 100000000}
FormatSamples ==
    {Int2R(200000), Int2R(123456), Int2R(0 - 123456), Int2R(12345678), Rat(123457, 100),
     Rat(1, 8), Rat(3, 8), Rat(1, 125), Rat(999999, 10)}
FormatArgs ==
    {None}
    \cup {Some(RMul(Rat(m, 4), Int2R(p))) :
             m \in (0 - MaxMantissa)..MaxMantissa, p \in PowersOfTen}
    \cup {Some(x) : x \in FormatSamples}

\* the amount field of the journal page: min_value=0.01, default 1000
JournalAmounts ==
    {Rat(k, 100) : k \in 1..MaxGstAmount} \cup {Int2R(DefaultAmount)}
\* what is typed in a text field
Names == { <<>>, <<"Ravi">> }
\* goods_type = st.text_input(..., value="Goods", ...)
GoodsTypes == { <<"Goods">>, <<>> }
CashOrBank == { <<"Cash">>, <<"Bank">> }
\* gst_rate = st.selectbox("GST Rate (%)", [5, 12, 18, 28], ...)
JournalGstRates == {5, 12, 18, 28}
\* the expense selectbox, "Other" replaced by the text typed
ExpenseTypes ==
    { <<"Rent">>, <<"Salary">>, <<"Electricity">>, <<"Telephone">>,
      <<"Office Supplies">> } \cup Names
IncomeTypes ==
    { <<"Commission Income">>, <<"Interest Income">>, <<"Rent Income">>,
      <<"Miscellaneous Income">> } \cup Names
PaymentMethods == { <<"Cash">>, <<"Bank">>, <<"Credit">> }
CapitalTypes ==
    {"Capital Introduced", "Additional Capital", "Drawings",
     "Capital Withdrawal"}
AssetTypes == { <<"Cash">>, <<"Bank">>, <<"Goods">> } \cup Names
\* the custom entry form: the account name character by character, the
\* amount (min_value=0.01): one paisa, and one and a quarter
CustomNames == { <<>>, <<" ">>, <<"a">> }
EntryTypes == {"Debit", "Credit"}
CustomAmounts == { Rat(1, 100), Rat(1, 80) }

RECURSIVE StringsOfLen(_)
StringsOfLen(n) ==
    IF n = 0 THEN { <<>> }
    ELSE {Append(s, c) : s \in StringsOfLen(n - 1), c \in Alphabet}
AllStates == UNION {StringsOfLen(n) : n \in 0..MaxStrLen}

\* ------------------------------------------------------------------- state
VARIABLES eq, eqPrev, gst, prev, util, journal, custom_entries, custom_error
vars == <<eq, eqPrev, gst, prev, util, journal, custom_entries, custom_error>>

Init ==
    /\ eq = EqIdle /\ eqPrev = EqIdle
    /\ gst = GstIdle /\ prev = GstIdle
    /\ util = UtilIdle
    /\ journal = JournalIdle
    /\ custom_entries = <<>> /\ custom_error = FALSE

\* no result is on the page.  A handler reads nothing of an earlier result,
\* so the buttons are taken from the page without results only.
NoResult ==
    /\ eq.status = "idle" /\ gst.status = "idle"
    /\ util.fn = "idle"
    /\ journal.status = "idle" /\ custom_error = FALSE

\* st.session_state.custom_entries is read by the custom entry form alone:
\* the other handlers are followed from the empty list.
Cleared == NoResult /\ custom_entries = <<>>

\* what a handler leaves of the results of the other handlers: nothing
ClearEq == eq' = EqIdle /\ eqPrev' = EqIdle
ClearGst == gst' = GstIdle /\ prev' = GstIdle
ClearUtil == util' = UtilIdle
ClearJournal ==
    /\ journal' = JournalIdle /\ custom_error' = FALSE
    /\ UNCHANGED custom_entries
ClearCalculators == ClearEq /\ ClearGst /\ ClearUtil

\* a rerun of the script with no button pressed: the results are not rendered
Rerun ==
    /\ ~NoResult
    /\ ClearCalculators /\ ClearJournal

\* the "Solve Equation" button
SolveEquation ==
    /\ Cleared
    /\ \E assets \in EqTerms, liabilities \in EqTerms, capital \in EqTerms,
       drawings \in EqAdjustments, additional_capital \in EqAdjustments,
       profit_loss \in EqProfitLoss :
        /\ eq' = solve_equation(assets, liabilities, capital,
                                drawings, additional_capital, profit_loss)
        /\ eqPrev' = EqIdle
        /\ ClearGst /\ ClearUtil /\ ClearJournal

\* the form of the last call submitted again with one term that was entered
\* as 0 left empty
ResubmitZeroAsAbsent ==
    /\ eq.status # "idle" /\ eqPrev.status = "idle"
    /\ \E term \in {"assets", "liabilities", "capital"} :
        /\ eq[term] = Some(Zero)
        /\ LET absent == [eq EXCEPT ![term] = None]
           IN  eq' = solve_equation(absent.assets, absent.liabilities,
                                    absent.capital, eq.drawings,
                                    eq.additional_capital, eq.profit_loss)
    /\ eqPrev' = eq
    /\ ClearGst /\ ClearUtil /\ ClearJournal

GstCall(amount, gst_rate, amount_type, transaction_type, from_state, to_state, reverse_charge) ==
    /\ gst' = calculate_and_display_gst(amount, gst_rate, amount_type,
                                        transaction_type, from_state, to_state,
                                        reverse_charge)
    /\ ClearEq /\ ClearUtil /\ ClearJournal

\* the "Calculate GST" button, over the amounts and rates
CalculateGst ==
    /\ Cleared
    /\ \E amount \in GstAmounts, gst_rate \in RateInputs,
       amount_type \in AmountTypes, transaction_type \in TransactionTypes,
       from_state \in SampleStates, to_state \in SampleStates,
       reverse_charge \in BOOLEAN :
        /\ GstCall(amount, gst_rate, amount_type, transaction_type,
                   from_state, to_state, reverse_charge)
        /\ prev' = GstIdle

\* the "Calculate GST" button, over every pair of state strings
CalculateGstStates ==
    /\ Cleared
    /\ \E amount_type \in AmountTypes, transaction_type \in TransactionTypes,
       from_state \in AllStates, to_state \in AllStates :
        /\ GstCall(Int2R(DefaultAmount), 18, amount_type, transaction_type,
                   from_state, to_state, FALSE)
        /\ prev' = GstIdle

\* the same form submitted again with only the reverse-charge box flipped
ToggleReverseCharge ==
    /\ gst.status # "idle"
    /\ GstCall(gst.amount, gst.gst_rate, gst.amount_type,
               gst.transaction_type, gst.from_state, gst.to_state,
               ~gst.reverse_charge)
    /\ prev' = gst

\* the total of an exclusive calculation entered as an inclusive amount
FeedTotalBack ==
    /\ gst.status = "done"
    /\ gst.amount_type = Exclusive
    /\ GstCall(Val(gst.total_amount), gst.gst_rate, Inclusive,
               gst.transaction_type, gst.from_state, gst.to_state,
               gst.reverse_charge)
    /\ prev' = gst

\* validate_gst_rate applied to a rate
ValidateGstRate ==
    /\ Cleared
    /\ \E rate \in RateArgs :
        /\ util' = validate_gst_rate(rate)
        /\ ClearEq /\ ClearGst /\ ClearJournal

\* validate_positive_number applied to a value
ValidatePositiveNumber ==
    /\ Cleared
    /\ \E value \in NumberArgs, allow_zero \in BOOLEAN :
        /\ util' = validate_positive_number(value, allow_zero)
        /\ ClearEq /\ ClearGst /\ ClearJournal

\* an amount rendered by a handler
FormatAmount ==
    /\ Cleared
    /\ \E amount \in FormatArgs, show_symbol \in BOOLEAN :
        /\ util' = format_currency(amount, show_symbol)
        /\ ClearEq /\ ClearGst /\ ClearJournal

\* a predefined handler shows its entry
ShowEntry(handler, amount, include_gst, gst_rate, entries) ==
    /\ journal' = Shown(handler, amount, include_gst, gst_rate, entries)
    /\ custom_error' = FALSE
    /\ UNCHANGED custom_entries
    /\ ClearCalculators

\* the "Generate Journal Entry" button of the cash/bank form
GenerateCashBank ==
    /\ Cleared
    /\ \E amount \in JournalAmounts, cash_bank \in CashOrBank,
       transaction_nature \in {"Receipt", "Payment"}, other \in Names :
        ShowEntry("cash_bank", amount, FALSE, 0,
                  CashBankEntries(amount, cash_bank, transaction_nature,
                                  other, other))

\* the "Generate Purchase Entry" button
GeneratePurchase ==
    /\ Cleared
    /\ \E amount \in JournalAmounts,
       purchase_type \in {"Cash Purchase", "Credit Purchase"},
       goods_type \in GoodsTypes, supplier \in Names,
       include_gst \in BOOLEAN, gst_rate \in JournalGstRates :
        ShowEntry("purchase", amount, include_gst,
                  IF include_gst THEN gst_rate ELSE 0,
                  PurchaseEntries(amount, purchase_type, goods_type, supplier,
                                  include_gst, gst_rate))

\* the "Generate Sales Entry" button
GenerateSales ==
    /\ Cleared
    /\ \E amount \in JournalAmounts,
       sales_type \in {"Cash Sales", "Credit Sales"},
       goods_type \in GoodsTypes, customer \in Names,
       include_gst \in BOOLEAN, gst_rate \in JournalGstRates :
        ShowEntry("sales", amount, include_gst,
                  IF include_gst THEN gst_rate ELSE 0,
                  SalesEntries(amount, sales_type, goods_type, customer,
                               include_gst, gst_rate))

\* the "Generate Expense Entry" button
GenerateExpense ==
    /\ Cleared
    /\ \E amount \in JournalAmounts, expense_type \in ExpenseTypes,
       payment_method \in PaymentMethods, creditor_name \in Names :
        ShowEntry("expense", amount, FALSE, 0,
                  ExpenseEntries(amount, expense_type, payment_method,
                                 creditor_name))

\* the "Generate Income Entry" button
GenerateIncome ==
    /\ Cleared
    /\ \E amount \in JournalAmounts, income_type \in IncomeTypes,
       receipt_method \in CashOrBank :
        ShowEntry("income", amount, FALSE, 0,
                  IncomeEntries(amount, income_type, receipt_method))

\* the "Generate Capital Entry" button
GenerateCapital ==
    /\ Cleared
    /\ \E amount \in JournalAmounts, capital_type \in CapitalTypes,
       asset_type \in AssetTypes :
        ShowEntry("capital", amount, FALSE, 0,
                  CapitalEntries(amount, capital_type, asset_type))

\* the "Add Entry" button with the form filled as given: the entry is
\* appended and the script reruns, or nothing happens
AddEntryWith(account_name, entry_type, entry_amount) ==
    /\ NoResult
    /\ Len(custom_entries) < MaxEntries
    /\ custom_entries' =
         IF AddAccepted(account_name, entry_amount)
         THEN Append(custom_entries,
                     CustomPosting(account_name, entry_type, entry_amount))
         ELSE custom_entries
    /\ UNCHANGED <<journal, custom_error>>
    /\ ClearCalculators

AddEntry ==
    \E account_name \in CustomNames, entry_type \in EntryTypes,
       entry_amount \in CustomAmounts :
        AddEntryWith(account_name, entry_type, entry_amount)

\* the delete button of the i-th current entry
DeleteEntryAt(i) ==
    /\ NoResult
    /\ i \in 1..Len(custom_entries)
    /\ custom_entries' = Pop(custom_entries, i)
    /\ UNCHANGED <<journal, custom_error>>
    /\ ClearCalculators

DeleteEntry == \E i \in 1..MaxEntries : DeleteEntryAt(i)

\* the "Generate Custom Entry" button, rendered for a non-empty list
GenerateCustom ==
    /\ NoResult
    /\ custom_entries # <<>>
    /\ IF GateOpen(TotalDr(custom_entries), TotalCr(custom_entries))
       THEN /\ journal' = [display_journal_entry(custom_entries)
                             EXCEPT !.handler = "custom"]
            /\ custom_error' = FALSE
       ELSE /\ journal' = JournalIdle
            /\ custom_error' = TRUE
    /\ custom_entries' = ListAfterGenerate(custom_entries)
    /\ ClearCalculators

Next ==
    \/ GenerateCashBank
    \/ GeneratePurchase
    \/ GenerateSales
    \/ GenerateExpense
    \/ GenerateIncome
    \/ GenerateCapital
    \/ AddEntry
    \/ DeleteEntry
    \/ GenerateCustom
    \/ FormatAmount
    \/ ValidateGstRate
    \/ ValidatePositiveNumber
    \/ SolveEquation
    \/ ResubmitZeroAsAbsent
    \/ CalculateGst
    \/ CalculateGstStates
    \/ ToggleReverseCharge
    \/ FeedTotalBack
    \/ Rerun

Spec == Init /\ [][Next]_vars

\* ------------------------------------------------------------------ claims
\* the terms of the last solve_equation call
IsSupplied(x) == x # None /\ x # Some(Zero)
SuppliedCount ==
    (IF IsSupplied(eq.assets) THEN 1 ELSE 0)
    + (IF IsSupplied(eq.liabilities) THEN 1 ELSE 0)
    + (IF IsSupplied(eq.capital) THEN 1 ELSE 0)
EqCalled == eq.status # "idle"

\* x + y + z + w, summed pairwise
Sum4(x, y, z, w) == RAdd(RAdd(x, y), RAdd(z, w))
Neg(x) == <<0 - x[1], x[2]>>

\* C1: a solve_equation call with fewer than two of Assets, Liabilities,
\* Capital supplied (present and non-zero) ends with the insufficient-values
\* error and has computed nothing: no adjusted capital, no solved value, no
\* verification verdict, no summary.
C1_InsufficientNoComputation ==
    (EqCalled /\ SuppliedCount < 2) =>
        /\ eq.status = "insufficient"
        /\ eq.adjusted_capital = None
        /\ eq.solution = EmptySolution
        /\ eq.verdict = "none"
        /\ eq.summary = <<>>

\* only Capital supplied, Liabilities given as 0: the call was refused
C1_Witness ==
    /\ eq.status = "insufficient"
    /\ IsSupplied(eq.capital)
    /\ eq.liabilities = Some(Zero)
    /\ eq.assets = None
    /\ eq.drawings # Zero

\* the adjusted capital the claim defines, from the inputs of the call
ClaimedAdjusted ==
    Sum4(Val(eq.capital), eq.additional_capital, Neg(eq.drawings),
         eq.profit_loss)

\* C2: with Capital supplied and exactly one of Assets / Liabilities absent
\* (the other supplied), the call solves the absent term so that
\* Assets = Liabilities + adjustedCapital holds exactly, adjustedCapital being
\* capital + additionalCapital - drawings + profitOrLoss.
C2_SolvedTermSatisfiesEquation ==
    /\ (EqCalled /\ IsSupplied(eq.capital) /\ eq.assets = None
           /\ IsSupplied(eq.liabilities)) =>
          /\ eq.status = "done"
          /\ eq.adjusted_capital = Some(ClaimedAdjusted)
          /\ eq.solution.Assets # None
          /\ RSub(Val(eq.solution.Assets), Val(eq.liabilities))
                = ClaimedAdjusted
    /\ (EqCalled /\ IsSupplied(eq.capital) /\ eq.liabilities = None
           /\ IsSupplied(eq.assets)) =>
          /\ eq.status = "done"
          /\ eq.adjusted_capital = Some(ClaimedAdjusted)
          /\ eq.solution.Liabilities # None
          /\ RAdd(Val(eq.solution.Liabilities), ClaimedAdjusted)
                = Val(eq.assets)

\* Liabilities solved from Assets and a capital adjusted by drawings and a
\* profit, the solved Liabilities being positive
C2_Witness ==
    /\ eq.status = "done"
    /\ eq.liabilities = None
    /\ IsSupplied(eq.assets) /\ IsSupplied(eq.capital)
    /\ eq.drawings # Zero /\ RLt(Zero, eq.profit_loss)
    /\ eq.drawings # eq.profit_loss
    /\ eq.solution.Liabilities # None
    /\ RLt(Zero, Val(eq.solution.Liabilities))

SolvedOne == eq.status = "done" /\ eq.solution # EmptySolution

\* C4: every call that passes the known-values precondition and solves for
\* the one absent term reaches the verification step, and the step reports
\* "Verified".
C4_SolveAlwaysVerified == SolvedOne => eq.verdict = "verified"

\* the last calculate_and_display_gst call
GstCalled == gst.status # "idle"
LegalRate == gst.gst_rate \in GstRates
PositiveAmount == RLt(Zero, gst.amount)
Within(x, y) == RLe(RAbs(RSub(x, y)), Tolerance)

\* C5: for an amount > 0 and a rate of the schedule the call computes, from a
\* tax-inclusive amount, a basic amount with basic * (1 + rate/100) = amount
\* and tax = amount - basic; from a tax-exclusive amount, basic = amount and
\* tax = amount * rate / 100; the total is basic + tax in both cases; at rate
\* 0 basic = amount and tax = 0; the call never faults on a division by zero.
C5_AmountComputation ==
    (GstCalled /\ LegalRate /\ PositiveAmount) =>
        /\ gst.status = "done"
        /\ gst.amount_type = Inclusive =>
              /\ RMul(Val(gst.basic_amount), Int2R(100 + gst.gst_rate))
                    = RMul(gst.amount, Int2R(100))
              /\ RAdd(Val(gst.basic_amount), Val(gst.gst_amount)) = gst.amount
        /\ gst.amount_type = Exclusive =>
              /\ gst.basic_amount = Some(gst.amount)
              /\ RMul(Val(gst.gst_amount), Int2R(100))
                    = RMul(gst.amount, Int2R(gst.gst_rate))
        /\ RSub(Val(gst.total_amount), Val(gst.gst_amount))
              = Val(gst.basic_amount)
        /\ gst.gst_rate = 0 =>
              gst.basic_amount = Some(gst.amount) /\ gst.gst_amount = Some(Zero)

\* an inclusive 1000 at 28 %: the basic amount is 781.25, the tax 218.75
C5_Witness ==
    /\ gst.status = "done"
    /\ gst.amount_type = Inclusive
    /\ gst.gst_rate = 28
    /\ gst.amount = Int2R(DefaultAmount)
    /\ gst.basic_amount = Some(Rat(3125, 4))
    /\ gst.gst_amount = Some(Rat(875, 4))

\* C6: an interstate computation gives IGST = tax and CGST = SGST = 0, an
\* intrastate one CGST = SGST = tax / 2 and IGST = 0; in every result
\* CGST + SGST + IGST is the tax amount within 0.01.
C6_SplitByJurisdiction ==
    (gst.status = "done") =>
        /\ gst.is_interstate =>
              /\ gst.igst = gst.gst_amount
              /\ gst.cgst = Some(Zero) /\ gst.sgst = Some(Zero)
        /\ ~gst.is_interstate =>
              /\ gst.cgst = gst.sgst
              /\ RMul(Val(gst.cgst), Int2R(2)) = Val(gst.gst_amount)
              /\ gst.igst = Some(Zero)
        /\ Within(RAdd(RAdd(Val(gst.cgst), Val(gst.sgst)), Val(gst.igst)),
                  Val(gst.gst_amount))

\* the intrastate sale of 1000 at 18 %: CGST 90, SGST 90, IGST 0, total 1180
C6_Witness ==
    /\ gst.status = "done"
    /\ ~gst.is_interstate
    /\ gst.amount_type = Exclusive
    /\ gst.amount = Int2R(DefaultAmount) /\ gst.gst_rate = 18
    /\ gst.cgst = Some(Int2R(90)) /\ gst.sgst = Some(Int2R(90))
    /\ gst.igst = Some(Zero)
    /\ gst.total_amount = Some(Int2R(1180))

\* exactly one of the groups {CGST, SGST} and {IGST} is non-zero
ExactlyOneGroup ==
    \/ gst.cgst # Some(Zero) /\ gst.sgst # Some(Zero) /\ gst.igst = Some(Zero)
    \/ gst.cgst = Some(Zero) /\ gst.sgst = Some(Zero) /\ gst.igst # Some(Zero)
AllComponentsZero ==
    gst.cgst = Some(Zero) /\ gst.sgst = Some(Zero) /\ gst.igst = Some(Zero)

\* C7 as stated: in every split result for an amount > 0 and a rate of the
\* schedule {0, 5, 12, 18, 28}, exactly one of the groups {CGST and SGST} and
\* {IGST} is non-zero.
C7_ExactlyOneGroupAnyRate ==
    (gst.status = "done" /\ LegalRate /\ PositiveAmount) => ExactlyOneGroup

\* C7 amended: in every split result for an amount > 0, exactly one of the
\* groups {CGST and SGST} and {IGST} is non-zero when the rate is one of
\* 5, 12, 18, 28, and CGST, SGST and IGST are all zero when the rate is 0.
C7_ExactlyOneGroupPositiveRate ==
    (gst.status = "done" /\ LegalRate /\ PositiveAmount) =>
        IF gst.gst_rate = 0 THEN AllComponentsZero ELSE ExactlyOneGroup

\* an interstate computation at 5 % on 0.01: IGST alone is non-zero
C7_Witness ==
    /\ gst.status = "done"
    /\ gst.is_interstate
    /\ gst.gst_rate = 5
    /\ gst.amount = Rat(1, 100)
    /\ gst.igst # Some(Zero)
    /\ gst.cgst = Some(Zero)

\* the part of s between its first and its last non-blank character
Trimmed(s) ==
    LET idx == {i \in 1..Len(s) : s[i] # " "}
    IN  IF idx = {} THEN <<>>
        ELSE SubSeq(s, CHOOSE i \in idx : \A j \in idx : i <= j,
                       CHOOSE i \in idx : \A j \in idx : j <= i)
\* equal up to the case of the letters
SameIgnoringCase(s, t) ==
    /\ Len(s) = Len(t)
    /\ \A i \in 1..Len(s) : s[i] = t[i] \/ {s[i], t[i]} = {"m", "M"}
StatesDiffer ==
    /\ gst.from_state # <<>>
    /\ gst.to_state # <<>>
    /\ ~SameIgnoringCase(Trimmed(gst.from_state), Trimmed(gst.to_state))

\* C8: the transaction is interstate when the From and To state strings are
\* both present (non-empty) and differ after trimming and case-folding; in
\* every other case the result is the transaction-type selector.
C8_Jurisdiction ==
    GstCalled =>
        gst.is_interstate =
            (IF StatesDiffer THEN TRUE ELSE gst.transaction_type = Interstate)

\* "M " and " m" under the intrastate selector: equal once trimmed and
\* folded, so the selector decides and the split is intrastate
C8_Witness ==
    /\ gst.status = "done"
    /\ gst.from_state = <<"M", " ">>
    /\ gst.to_state = <<" ", "m">>
    /\ gst.transaction_type = Intrastate
    /\ ~gst.is_interstate
    /\ gst.igst = Some(Zero)

\* gst is the inclusive calculation on the total of the exclusive one in prev
RoundTrip ==
    /\ prev.status = "done" /\ prev.amount_type = Exclusive
    /\ GstCalled /\ gst.amount_type = Inclusive
    /\ Some(gst.amount) = prev.total_amount
    /\ gst.gst_rate = prev.gst_rate

\* C9: for every rate of the schedule and every amount A >= 0, the inclusive
\* calculation on the total of the exclusive calculation for A at the same
\* rate gives back A as its basic amount, within 0.01.
C9_RoundTrip ==
    (RoundTrip /\ LegalRate /\ RLe(Zero, prev.amount)) =>
        /\ gst.status = "done"
        /\ Within(Val(gst.basic_amount), prev.amount)

\* 1000 at 18 % exclusive gives 1180; 1180 inclusive gives back 1000
C9_Witness ==
    /\ RoundTrip
    /\ prev.amount = Int2R(DefaultAmount) /\ prev.gst_rate = 18
    /\ gst.amount = Int2R(1180)
    /\ gst.status = "done"
    /\ gst.basic_amount = Some(Int2R(DefaultAmount))

\* gst and prev are two calls that differ in the reverse-charge flag only
FlagOnlyDiffers ==
    /\ prev.status # "idle" /\ GstCalled
    /\ gst.reverse_charge # prev.reverse_charge
    /\ gst.amount = prev.amount /\ gst.gst_rate = prev.gst_rate
    /\ gst.amount_type = prev.amount_type
    /\ gst.transaction_type = prev.transaction_type
    /\ gst.from_state = prev.from_state /\ gst.to_state = prev.to_state

\* C10: two calls that differ only in the reverse-charge flag compute the
\* same basic, tax and total amounts and the same CGST, SGST and IGST; the
\* standard sales/purchase postings are shown exactly when the flag is off.
C10_ReverseChargeNoEffect ==
    /\ FlagOnlyDiffers =>
          /\ gst.status = prev.status
          /\ gst.basic_amount = prev.basic_amount
          /\ gst.gst_amount = prev.gst_amount
          /\ gst.total_amount = prev.total_amount
          /\ gst.cgst = prev.cgst /\ gst.sgst = prev.sgst
          /\ gst.igst = prev.igst
    /\ gst.status = "done" =>
          (gst.journal_entries # <<>>) = (~gst.reverse_charge)

\* the flag switched on for an inclusive 1000 at 18 %: the postings of the
\* earlier call are gone, the tax is unchanged
C10_Witness ==
    /\ FlagOnlyDiffers
    /\ gst.status = "done" /\ gst.reverse_charge
    /\ gst.amount = Int2R(DefaultAmount) /\ gst.gst_rate = 18
    /\ gst.amount_type = Inclusive
    /\ gst.gst_amount # Some(Zero)
    /\ prev.journal_entries # <<>> /\ gst.journal_entries = <<>>

\* the last validate_gst_rate call
RateChecked == util.fn = "validate_gst_rate" /\ util.arg # None
OnSchedule(r) ==
    r = <<0, 1>> \/ r = <<5, 1>> \/ r = <<12, 1>> \/ r = <<18, 1>>
        \/ r = <<28, 1>>

\* C11: validate_gst_rate accepts a numeric rate exactly when it is one of
\* 0, 5, 12, 18, 28; a rate below 0 is refused with the negative-rate error,
\* a rate above 28 with the rate-too-high error, and a rate from 0 to 28 off
\* the schedule with the not-a-scheduled-rate error.
C11_RateValidation ==
    RateChecked =>
        LET r == Val(util.arg) IN
        /\ util.ok = OnSchedule(r)
        /\ util.ok => util.err = ""
        /\ r[1] < 0 => util.err = "GST rate cannot be negative"
        /\ r[1] > 28 * r[2] => util.err = "GST rate cannot exceed 28%"
        /\ (r[1] >= 0 /\ r[1] <= 28 * r[2] /\ ~OnSchedule(r)) =>
              util.err = "Invalid GST rate"

\* 15 % is refused as off the schedule
C11_Witness ==
    /\ RateChecked
    /\ util.arg = Some(Int2R(15))
    /\ ~util.ok
    /\ util.err = "Invalid GST rate"

\* C12: calculate_and_display_gst produces a tax split only for a rate of
\* the schedule; with any other rate it rejects the input and computes no
\* amounts.
C12_SplitOnlyForScheduledRate ==
    (GstCalled /\ ~LegalRate) =>
        /\ gst.status # "done"
        /\ gst.basic_amount = None /\ gst.gst_amount = None
        /\ gst.cgst = None /\ gst.sgst = None /\ gst.igst = None

\* the last format_currency call on a number
Formatted == util.fn = "format_currency" /\ util.arg # None
Magnitude == RAbs(Val(util.arg))
AtLeast(x, n) == x[1] >= n * x[2]

\* "-" for a negative amount, then the symbol when it was asked for
SignAndSymbol ==
    (IF Val(util.arg)[1] < 0 THEN <<"-">> ELSE <<>>)
    \o (IF util.flag THEN <<"₹">> ELSE <<>>)
\* the unit the magnitude calls for: its divisor and its suffix
UnitDivisor ==
    IF AtLeast(Magnitude, 10000000) THEN 10000000
    ELSE IF AtLeast(Magnitude, 100000) THEN 100000 ELSE 1
UnitSuffix ==
    IF AtLeast(Magnitude, 10000000) THEN <<" ", "C", "r">>
    ELSE IF AtLeast(Magnitude, 100000) THEN <<" ", "L">> ELSE <<>>

\* the numeral between the sign-and-symbol and the unit suffix
Numeral ==
    SubSeq(util.out, Len(SignAndSymbol) + 1, Len(util.out) - Len(UnitSuffix))
DotAt(s) ==
    IF \E i \in 1..Len(s) : s[i] = "."
    THEN CHOOSE i \in 1..Len(s) : s[i] = "." ELSE Len(s) + 1
WholePart(s) == SubSeq(s, 1, DotAt(s) - 1)
FractionPart(s) == SubSeq(s, DotAt(s) + 1, Len(s))
IsDigits(s) ==
    \A i \in 1..Len(s) :
        s[i] \in {"0", "1", "2", "3", "4", "5", "6", "7", "8", "9"}
DigitValue(c) ==
    CASE c = "0" -> 0 [] c = "1" -> 1 [] c = "2" -> 2 [] c = "3" -> 3
      [] c = "4" -> 4 [] c = "5" -> 5 [] c = "6" -> 6 [] c = "7" -> 7
      [] c = "8" -> 8 [] c = "9" -> 9
RECURSIVE NaturalOf(_)
NaturalOf(s) ==
    IF s = <<>> THEN 0
    ELSE 10 * NaturalOf(SubSeq(s, 1, Len(s) - 1)) + DigitValue(s[Len(s)])
WithoutCommas(s) == SelectSeq(s, LAMBDA c : c # ",")
\* a comma stands exactly before every group of three digits
GroupedByThree(s) ==
    /\ s # <<>> /\ s[1] # ","
    /\ \A i \in 1..Len(s) : (s[i] = ",") = ((Len(s) - i + 1) % 4 = 0)
    /\ IsDigits(WithoutCommas(s))
\* a grouped decimal of at most two places, no trailing zero or point
GroupedDecimal(s) ==
    /\ GroupedByThree(WholePart(s))
    /\ IsDigits(FractionPart(s))
    /\ Len(FractionPart(s)) <= 2
    /\ DotAt(s) <= Len(s) =>
          FractionPart(s) # <<>> /\ s[Len(s)] # "0"
DecimalValue(s) ==
    LET f == FractionPart(s)
        scale == IF Len(f) = 0 THEN 1 ELSE IF Len(f) = 1 THEN 10 ELSE 100
    IN  Rat(NaturalOf(WithoutCommas(WholePart(s))) * scale + NaturalOf(f),
            scale)
HalfCent == <<1, 200>>

\* C18: format_currency renders zero as "0", a magnitude of at least
\* 10,000,000 divided by 10^7 with the suffix " Cr", a magnitude from 100,000
\* up to 10,000,000 divided by 10^5 with the suffix " L", and a smaller one
\* undivided, each as a grouped decimal of two places; the symbol comes first
\* when it is asked for, and "-" comes before it for a negative amount.
C18_UnitSelection ==
    Formatted =>
        IF Val(util.arg) = Zero
        THEN util.out = (IF util.flag THEN <<"₹", "0">> ELSE <<"0">>)
        ELSE
          /\ Len(util.out) > Len(SignAndSymbol) + Len(UnitSuffix)
          /\ SubSeq(util.out, 1, Len(SignAndSymbol)) = SignAndSymbol
          /\ SubSeq(util.out, Len(util.out) - Len(UnitSuffix) + 1,
                    Len(util.out)) = UnitSuffix
          /\ GroupedDecimal(Numeral)
          /\ RLe(RAbs(RSub(DecimalValue(Numeral),
                           RDiv(Magnitude, Int2R(UnitDivisor)))),
                 HalfCent)

\* 200000 with the symbol renders as "₹2 L"
C18_Witness ==
    /\ Formatted
    /\ util.arg = Some(Int2R(200000))
    /\ util.flag
    /\ util.out = <<"₹", "2", " ", "L">>


\* the entry of a predefined handler is on the page
TemplateShown == journal.status = "shown" /\ journal.handler # "custom"

\* the debit and the credit amounts of a posting list, summed from the left
RECURSIVE SumOver(_, _)
SumOver(entries, side) ==
    IF entries = <<>> THEN Zero
    ELSE RAdd(IF side = "Dr" THEN Head(entries).Dr_Amount
                             ELSE Head(entries).Cr_Amount,
              SumOver(Tail(entries), side))
Imbalance(entries) ==
    RAbs(RSub(SumOver(entries, "Dr"), SumOver(entries, "Cr")))

\* the posting lines of the shown purchase entry that debit an account
DebitLines ==
    {i \in 1..Len(journal.entries) : journal.entries[i].Cr_Amount = Zero}

\* C13: the entry of every predefined handler has its debits equal to its
\* credits within 0.01 and is never shown as NOT balanced; a purchase with
\* GST debits the basic amount amount/(1 + rate/100) and the tax
\* amount - basic, and credits the full amount.
C13_TemplatesBalance ==
    TemplateShown =>
        /\ RLe(Imbalance(journal.entries), Tolerance)
        /\ journal.balanced
        /\ (journal.handler = "purchase" /\ journal.include_gst) =>
              /\ Len(journal.entries) = 3
              /\ DebitLines = {1, 2}
              /\ RMul(journal.entries[1].Dr_Amount,
                      RateFactor(journal.gst_rate)) = journal.amount
              /\ journal.entries[2].Dr_Amount =
                   RSub(journal.amount, journal.entries[1].Dr_Amount)
              /\ journal.entries[3].Dr_Amount = Zero
              /\ journal.entries[3].Cr_Amount = journal.amount

\* a credit purchase of 1000 with GST at 18%
C13_Witness ==
    /\ TemplateShown
    /\ journal.handler = "purchase" /\ journal.include_gst
    /\ journal.gst_rate = 18
    /\ journal.amount = Int2R(DefaultAmount)
    /\ journal.entries[2].Account = <<"Input GST">>
    /\ journal.entries[2].Dr_Amount = Rat(9000, 59)
    /\ journal.balanced

\* exactly one of the two amounts of a posting is non-zero
OneSided(entry) == (entry.Dr_Amount = Zero) # (entry.Cr_Amount = Zero)
AllOneSided(entries) == \A i \in 1..Len(entries) : OneSided(entries[i])

\* C14: every posting of a predefined handler's entry, and every posting held
\* in the custom entry list, has exactly one of its debit and credit amounts
\* non-zero.
C14_PostingOneSided ==
    /\ TemplateShown => AllOneSided(journal.entries)
    /\ AllOneSided(custom_entries)

\* a custom list holding a debit and a credit line
C14_Witness ==
    /\ Len(custom_entries) = 2
    /\ custom_entries[1].Dr_Amount # Zero
    /\ custom_entries[2].Cr_Amount # Zero

\* the entry generated from the custom list is on the page
CustomShown == journal.status = "shown" /\ journal.handler = "custom"

\* C15: a posting list is reported as unbalanced exactly when its totals
\* differ by more than 0.01: the gate of "Generate Custom Entry" refuses a
\* list only then, and the verdict of a shown entry is "balanced" exactly
\* when the totals differ by 0.01 or less.
C15_UnbalancedOnlyBeyondTolerance ==
    /\ custom_error => RLt(Tolerance, Imbalance(custom_entries))
    /\ journal.status = "shown" =>
          (journal.balanced <=> RLe(Imbalance(journal.entries), Tolerance))

\* a text of spaces only, the empty text included
Blank(text) == \A i \in 1..Len(text) : text[i] = " "
NoBlankAccount(entries) ==
    \A i \in 1..Len(entries) : ~Blank(entries[i].Account)

\* C16: the custom entry list never holds a posting with a blank account
\* name, and a custom journal entry is generated only from a list of at least
\* one posting, each with a non-blank account name.
C16_CustomPreconditions ==
    /\ NoBlankAccount(custom_entries)
    /\ CustomShown =>
          /\ journal.entries # <<>>
          /\ NoBlankAccount(journal.entries)

\* C17: "Generate Custom Entry" on a list whose debits and credits differ by
\* more than the tolerance shows no journal entry, reports the imbalance and
\* leaves the list as it was.
C17_NoAutoCorrection ==
    [][(GenerateCustom /\ RLt(Tolerance, Imbalance(custom_entries))) =>
          /\ custom_entries' = custom_entries
          /\ journal'.status = "idle"
          /\ custom_error']_vars

\* the imbalance reported for a list of two debits and no credit
C17_Witness ==
    /\ custom_error
    /\ journal.status = "idle"
    /\ Len(custom_entries) = 2
    /\ TotalCr(custom_entries) = Zero
    /\ RLt(Tolerance, Imbalance(custom_entries))

\* C19: no operation ends in an uncaught exception.
C19_NoUncaughtFault ==
    /\ eq.status # "fault"
    /\ gst.status # "fault"
    /\ journal.status # "fault"
    /\ util.fn # "fault"

\* eqPrev is a call with a term entered as 0, eq the same call with that
\* term left empty
ZeroTwin == eqPrev.status # "idle" /\ eq.status # "idle"

\* C20: replacing a term supplied as 0 by an absent one yields the same
\* outcome: the same error, or the same solved values.
C20_ZeroSameAsAbsent ==
    ZeroTwin =>
        /\ eq.status = eqPrev.status
        /\ eq.solution = eqPrev.solution

\* C20, amended: a zero term is counted as unknown but is not solved.  The
\* two calls agree on the "at least 2 known values" error; when they pass it,
\* the call with the 0 solves no term and the call with the absent term
\* solves that term.
C20_ZeroCountedNotSolved ==
    ZeroTwin =>
        /\ (eq.status = "insufficient") <=> (eqPrev.status = "insufficient")
        /\ eq.status = "insufficient" => eq.solution = eqPrev.solution
        /\ eq.status = "done" =>
              /\ eqPrev.status = "done"
              /\ eqPrev.solution = EmptySolution
              /\ eq.solution # EmptySolution

\* liabilities entered as 0, then left empty and solved
C20_Witness ==
    /\ ZeroTwin
    /\ eqPrev.liabilities = Some(Zero) /\ eq.liabilities = None
    /\ eqPrev.status = "done" /\ eqPrev.solution = EmptySolution
    /\ eq.status = "done" /\ eq.solution.Liabilities # None

\* a posting that debits its account, a posting that credits it
IsDebitLine(entry) == entry.Dr_Amount # Zero
IsCreditLine(entry) == entry.Cr_Amount # Zero

\* no credit line comes before a debit line
DebitFirst(entries) ==
    \A i \in 1..Len(entries), j \in 1..Len(entries) :
        (IsCreditLine(entries[i]) /\ IsDebitLine(entries[j])) => j < i

\* C21: in the entry of every predefined handler all debit lines precede all
\* credit lines.
C21_DebitFirst == TemplateShown => DebitFirst(journal.entries)

\* a sale with GST: the debit of the customer, then the two credits
C21_Witness ==
    /\ TemplateShown
    /\ journal.handler = "sales" /\ journal.include_gst
    /\ Len(journal.entries) = 3
    /\ IsDebitLine(journal.entries[1])
    /\ IsCreditLine(journal.entries[2])
    /\ journal.entries[3].Account = <<"To Output GST">>
    /\ IsCreditLine(journal.entries[3])

\* after is before, or before with one posting of the account put at its end
ExtendedAtEnd(before, after, account_name) ==
    /\ Len(after) \in {Len(before), Len(before) + 1}
    /\ \A k \in 1..Len(before) : after[k] = before[k]
    /\ Len(after) > Len(before) => after[Len(after)].Account = account_name

\* after is before with its i-th posting taken out and the others in order
RemovedAt(before, after, i) ==
    /\ Len(after) = Len(before) - 1
    /\ \A k \in 1..(i - 1) : after[k] = before[k]
    /\ \A k \in i..Len(after) : after[k] = before[k + 1]

\* C22: Add Entry keeps the postings held and puts the new one last, the
\* delete button of a posting takes that posting out and keeps the order of
\* the others, and "Generate
\* Custom Entry" on a list balanced within the tolerance shows exactly the
\* postings held, in their order, and leaves the list empty; a custom entry
\* is shown only by such a step, from a non-empty list.
C22_CustomDrain ==
    [][/\ \A account_name \in CustomNames, entry_type \in EntryTypes,
             entry_amount \in CustomAmounts :
             AddEntryWith(account_name, entry_type, entry_amount) =>
                ExtendedAtEnd(custom_entries, custom_entries', account_name)
       /\ \A i \in 1..MaxEntries :
             DeleteEntryAt(i) => RemovedAt(custom_entries, custom_entries', i)
       /\ (GenerateCustom /\ RLt(Imbalance(custom_entries), Tolerance)) =>
             /\ journal'.status = "shown"
             /\ journal'.entries = custom_entries
             /\ custom_entries' = <<>>
       /\ (journal'.status = "shown" /\ journal'.handler = "custom") =>
             /\ custom_entries # <<>>
             /\ journal'.entries = custom_entries
             /\ custom_entries' = <<>>]_vars

\* the entry generated from a debit of "a" followed by a credit of " "
C22_Witness ==
    /\ CustomShown
    /\ custom_entries = <<>>
    /\ Len(journal.entries) = 2
    /\ journal.entries[1] = Posting(<<"a">>, Rat(1, 80), Zero)
    /\ journal.entries[2] = Posting(<<" ">>, Zero, Rat(1, 100))
    /\ journal.balanced

\* the last call had Assets, Liabilities and Capital all supplied non-zero
AllSupplied == EqCalled /\ SuppliedCount = 3

\* capital + additionalCapital - drawings + profitOrLoss of the last call
AdjustedOfInputs ==
    Sum4(Val(eq.capital), eq.additional_capital, Neg(eq.drawings),
         eq.profit_loss)

\* |assets - (liabilities + adjustedCapital)| < 0.01 for the last call
InputsBalance ==
    RLt(RAbs(RSub(Val(eq.assets),
                  RAdd(Val(eq.liabilities), AdjustedOfInputs))),
        Tolerance)

\* C23: a call with all three terms supplied non-zero solves for nothing and
\* only verifies: it reports "Verified" exactly when
\* |assets - (liabilities + adjustedCapital)| < 0.01 and the imbalance error
\* otherwise.
C23_AllSuppliedOnlyVerifies ==
    AllSupplied =>
        /\ eq.status = "done"
        /\ eq.solution = EmptySolution
        /\ eq.adjusted_capital = Some(AdjustedOfInputs)
        /\ eq.verdict = (IF InputsBalance THEN "verified" ELSE "imbalance")

=============================================================================
